---- MODULE Spec2Model ----
(***************************************************************************)
(* Model of probe.Base (package probe): the Load / Run / Close lifecycle   *)
(* of an eBPF instrumentation probe, its list of closeable resources, its  *)
(* perf reader and the event loop that forwards decoded records; and the   *)
(* functions that only read the probe: FuncNames, and the resolution of    *)
(* the constants to inject (injectOpts, InjectOption).                     *)
(*                                                                         *)
(* The kernel, the perf reader, the factories (SpecFn, ReaderFn), the      *)
(* injection backend and the uprobe functions are the environment: their   *)
(* results are inputs chosen with \E.  A function that reports an error    *)
(* returns no value with it (Go's "nil, err").                             *)
(***************************************************************************)
EXTENDS Integers, Sequences, FiniteSets, TLC

----------------------------------------------------------------------------
(* Bounds *)

\* Calls of Load and of Close on one probe.
MaxLoads == 2
MaxCloses == 2
\* Reads of the perf reader that return a record or an error other than closed.
MaxReads == 2
\* Links one uprobe function returns.
MaxLinks == 1
\* Resources the environment hands out to one probe over all its Loads.
MaxRes == 8
\* Largest dropped-sample count of a record.
MaxLost == 1
\* Capacity of the output channel Run is given.
ChanCap == 1
\* Longest list of constants injectOpts is applied to.
MaxConsts == 3

----------------------------------------------------------------------------
(* Configuration of the probe instance *)

\* Width in bytes of the raw event record BPFEvent (one little-endian uint16).
EventSize == 2

\* Payloads the ring buffer delivers: shorter than, as long as and longer than
\* a BPFEvent.
RawSamples == {<<>>, <<1>>, <<1, 0>>, <<0, 1>>, <<1, 0, 1>>}

\* Keys of Base.Uprobes.
Symbols == {"a", "b"}

\* Names a key of Base.Uprobes can have, and the bytes of each: Go compares
\* strings byte by byte.
SymbolNames == {"a", "ab", "b", "ba", "c"}

Bytes(s) ==
    CASE s = "a"  -> <<97>>
      [] s = "ab" -> <<97, 98>>
      [] s = "b"  -> <<98>>
      [] s = "ba" -> <<98, 97>>
      [] s = "c"  -> <<99>>

ModPaths == {"m1", "m2"}

Versions == {"v1"}

Nil == 0

\* Base.Consts: one constant of every variant.
Consts ==
    << [type |-> "StructField", Key |-> "k1", ModPath |-> "m1"],
       [type |-> "Allocation",  Key |-> "",   ModPath |-> ""],
       [type |-> "RegistersABI", Key |-> "",  ModPath |-> ""],
       [type |-> "KeyVal",      Key |-> "k2", ModPath |-> ""] >>

\* The constants a list of constants is made of: two struct fields of
\* different modules and one constant of every other variant.
ConstValues ==
    { Consts[i] : i \in 1..Len(Consts) }
    \cup { [type |-> "StructField", Key |-> "k3", ModPath |-> "m2"] }

\* process.TargetDetails as far as the probe reads it.
TargetDetails ==
    { [Libraries |-> libs, AllocationDetails |-> alloc, RegistersABI |-> abi] :
        libs \in UNION { [S -> Versions] : S \in SUBSET ModPaths },
        alloc \in BOOLEAN, abi \in BOOLEAN }

----------------------------------------------------------------------------
(* Constant injection *)

\* fmt.Errorf("unknown module version: %s", c.Val.ModPath)
UnknownModule(path) ==
    CASE path = "m1" -> "unknown module version: m1"
      [] path = "m2" -> "unknown module version: m2"

\* Variant of InjectOption: the allocation details are injected as they are,
\* present or not.
InjectOptionUnchecked(c, td) ==
    CASE c.type = "StructField" ->
            IF c.ModPath \in DOMAIN td.Libraries
            THEN [opt |-> <<"WithOffset", c.Key, c.ModPath, td.Libraries[c.ModPath]>>,
                  err |-> ""]
            ELSE [opt |-> <<>>, err |-> UnknownModule(c.ModPath)]
      [] c.type = "Allocation" -> [opt |-> <<"WithAllocationDetails">>, err |-> ""]
      [] c.type = "RegistersABI" ->
            [opt |-> <<"WithRegistersABI", td.RegistersABI>>, err |-> ""]
      [] c.type = "KeyVal" ->
            [opt |-> <<"WithKeyValue", c.Key>>, err |-> ""]

\* Const.InjectOption of each variant: [opt, err], err = "" for nil.
InjectOption(c, td) ==
    CASE c.type = "StructField" ->
            IF c.ModPath \in DOMAIN td.Libraries
            THEN [opt |-> <<"WithOffset", c.Key, c.ModPath, td.Libraries[c.ModPath]>>,
                  err |-> ""]
            ELSE [opt |-> <<>>, err |-> UnknownModule(c.ModPath)]
      [] c.type = "Allocation" ->
            IF ~td.AllocationDetails
            THEN [opt |-> <<>>, err |-> "no allocation details"]
            ELSE [opt |-> <<"WithAllocationDetails">>, err |-> ""]
      [] c.type = "RegistersABI" ->
            [opt |-> <<"WithRegistersABI", td.RegistersABI>>, err |-> ""]
      [] c.type = "KeyVal" ->
            [opt |-> <<"WithKeyValue", c.Key>>, err |-> ""]

\* errors.Join(err, e): the joined error is the sequence of non-nil errors.
Join(err, e) == IF e = "" THEN err ELSE Append(err, e)

\* Variant of injectOptsFrom: the loop ends at the first constant that fails.
RECURSIVE injectOptsFromFirstError(_, _, _, _)
injectOptsFromFirstError(cs, td, out, err) ==
    IF cs = <<>> THEN [out |-> out, err |-> err, resolved |-> <<>>]
    ELSE LET r == InjectOption(Head(cs), td) IN
         IF r.err # ""
         THEN [out |-> out, err |-> Join(err, r.err), resolved |-> <<Head(cs)>>]
         ELSE LET rest == injectOptsFromFirstError(Tail(cs), td,
                                                   Append(out, r.opt), err)
              IN [rest EXCEPT !.resolved = <<Head(cs)>> \o @]

\* The loop of injectOpts over the constants cs, entered with out and err;
\* resolved lists the constants InjectOption was invoked on.
RECURSIVE injectOptsFrom(_, _, _, _)
injectOptsFrom(cs, td, out, err) ==
    IF cs = <<>> THEN [out |-> out, err |-> err, resolved |-> <<>>]
    ELSE LET r == InjectOption(Head(cs), td)
             rest == injectOptsFrom(Tail(cs), td,
                                    IF r.err = "" THEN Append(out, r.opt) ELSE out,
                                    Join(err, r.err))
         IN [rest EXCEPT !.resolved = <<Head(cs)>> \o @]

\* consts.injectOpts
injectOpts(cs, td) == injectOptsFrom(cs, td, <<>>, <<>>)

\* Variant of injectConsts: the constants that resolved are injected as long
\* as there are any.
injectConstsResolved(td, injOK) ==
    LET r == injectOpts(Consts, td) IN
    IF r.err # <<>> /\ r.out = <<>> THEN [err |-> "constErr", injected |-> 0]
    ELSE IF ~injOK THEN [err |-> "injectErr", injected |-> 1]
    ELSE [err |-> "ok", injected |-> 1]

\* Base.injectConsts: inject.Constants runs only when every constant resolved.
injectConsts(td, injOK) ==
    LET r == injectOpts(Consts, td) IN
    IF r.err # <<>> THEN [err |-> "constErr", injected |-> 0]
    ELSE IF ~injOK THEN [err |-> "injectErr", injected |-> 1]
    ELSE [err |-> "ok", injected |-> 1]

----------------------------------------------------------------------------
(* FuncNames *)

\* s < t for Go strings: the lexicographic order of their bytes.
RECURSIVE BytesLess(_, _)
BytesLess(a, b) ==
    IF b = <<>> THEN FALSE
    ELSE IF a = <<>> THEN TRUE
    ELSE IF a[1] # b[1] THEN a[1] < b[1]
    ELSE BytesLess(Tail(a), Tail(b))

StringLess(s, t) == BytesLess(Bytes(s), Bytes(t))

\* s is put into the ascending list x before its first element that is not
\* smaller.
RECURSIVE Insert(_, _)
Insert(x, s) ==
    IF x = <<>> THEN <<s>>
    ELSE IF StringLess(Head(x), s) THEN <<Head(x)>> \o Insert(Tail(x), s)
    ELSE <<s>> \o x

\* Variant of sortStrings: the list is returned as it was collected.
sortStringsSkipped(x) == x

\* sort.Strings(x): x in ascending order.
RECURSIVE sortStrings(_)
sortStrings(x) ==
    IF x = <<>> THEN <<>> ELSE Insert(sortStrings(Tail(x)), Head(x))

\* Every order in which Go may range over a map with these keys.
RangeOrders(keys) ==
    { o \in [1..Cardinality(keys) -> keys] :
        \A i, j \in 1..Cardinality(keys) : i # j => o[i] # o[j] }

\* Base.FuncNames, with the keys in the order the range over the map yields.
FuncNames(order) == sortStrings(order)

----------------------------------------------------------------------------
(* State *)

VARIABLES
    objCloseable,   \* whether *BPFObj implements io.Closer (fixed per probe type)
    closers,        \* Base.closers: sequence of resource ids
    reader,         \* Base.reader: a resource id, or Nil
    resKind,        \* every resource the environment handed out; id = index
    relCount,       \* per resource: how many times its Close() was invoked
    rdClosed,       \* perf readers whose Close() took effect
    lastLoad,       \* the last Load: the err it returned, the number of resources
                    \* before it, and the collaborator that failed
    calls,          \* how often the last Load called each collaborator, and
                    \* (symb) the uprobe function of each symbol
    loads,          \* number of Load calls
    closePc,        \* position of Close: "idle", "loop", "done"
    closeIdx,       \* index of the next closer Close releases
    closeErr,       \* err of Close: whether err != nil, that is, whether a
                    \* release error has been joined (FALSE outside Close)
    closeSeen,      \* ids Close released in the current call, in order
    closeRet,       \* what the last Close handed to its caller: "none" before
                    \* it returns, "returned" after
    closes,         \* number of Close calls
    runPc,          \* position of Run: "idle", "read", "send", "done"
    cur,            \* the e of Run, waiting at dest <- e
    readLog,        \* what each completed reader.Read() yielded
    decoded,        \* indices of readLog on which processRecord ran
    dest,           \* the output channel's buffer
    sent,           \* every send on dest: [rec, ev], in order
    lastRead,       \* outcome of the most recent reader.Read()
    fnArg,          \* what FuncNames, injectOpts and InjectOption are called
                    \* on: the keys of Base.Uprobes (uprobes), or a list of
                    \* constants (consts) and the target details (td)
    fnRet           \* the last call of one of them and what it returned

loadVars == <<objCloseable, closers, reader, resKind, lastLoad, calls, loads>>
closeVars == <<relCount, rdClosed, closePc, closeIdx, closeErr, closeSeen, closeRet, closes>>
runVars == <<runPc, cur, readLog, decoded, sent, lastRead>>
fnVars == <<fnArg, fnRet>>
vars == <<loadVars, closeVars, runVars, dest, fnVars>>

\* Every ordering in which Go may range over Base.Uprobes.
Orders ==
    { o \in [1..Cardinality(Symbols) -> Symbols] :
        \A i, j \in 1..Cardinality(Symbols) : i # j => o[i] # o[j] }

\* What the environment does during one Load is a record of the results of
\* SpecFn (specOK), inject.Constants (injOK), utils.LoadEBPFObjects (loadOK)
\* and ReaderFn (rdOK), the target details td, the order in which the map of
\* uprobes is ranged over, and att: att[s] is the number of links the uprobe
\* function of symbol s returns, or -1 when it fails.

\* The collaborator whose failure ends a Load with these inputs, "done" when
\* none fails.
LastStage(in) ==
    IF ~in.specOK THEN "spec"
    ELSE IF \E i \in 1..Len(Consts) : InjectOption(Consts[i], in.td).err # ""
    THEN "consts"
    ELSE IF ~in.injOK THEN "inject"
    ELSE IF ~in.loadOK THEN "load"
    ELSE IF \E s \in Symbols : in.att[s] < 0 THEN "attach"
    ELSE IF ~in.rdOK THEN "reader"
    ELSE "done"

\* Target details against which every constant resolves.
ResolvingDetails ==
    CHOOSE td \in TargetDetails :
        \A i \in 1..Len(Consts) : InjectOption(Consts[i], td).err = ""

\* The inputs of a Load in which nothing fails and no link is returned.
DefaultInput ==
    [specOK |-> TRUE, injOK |-> TRUE, loadOK |-> TRUE, rdOK |-> TRUE,
     td |-> ResolvingDetails,
     order |-> CHOOSE o \in Orders : TRUE,
     att |-> [s \in Symbols |-> 0]]

\* The inputs of the Loads that get to the uprobe functions.  What the uprobe
\* functions after the first failing one would return, and what the reader
\* factory would return after a failing one, is never asked for and is left
\* at its default.
AttachInputs ==
    { in \in { [DefaultInput EXCEPT !.order = o, !.att = a, !.rdOK = r] :
                 o \in Orders, a \in [Symbols -> -1..MaxLinks], r \in BOOLEAN } :
        /\ (\E s \in Symbols : in.att[s] < 0) => in.rdOK
        /\ \A i, j \in 1..Len(in.order) :
              i < j /\ in.att[in.order[i]] < 0 => in.att[in.order[j]] = 0 }

\* The inputs of the Loads the model takes.  An input Load never gets to read
\* is left at its default: the results of the collaborators after the one
\* that fails.  The options of resolved constants only go to the injection,
\* so ResolvingDetails stands for all the target details that resolve every
\* constant in the Loads that get further than the injection.
LoadInputs ==
    { [DefaultInput EXCEPT !.specOK = FALSE],
      [DefaultInput EXCEPT !.injOK = FALSE],
      [DefaultInput EXCEPT !.loadOK = FALSE] }
    \cup { [DefaultInput EXCEPT !.td = td] : td \in TargetDetails }
    \cup AttachInputs

----------------------------------------------------------------------------
(* Load *)

\* Variant of Register: the newest resource goes to the front of the list.
RegisterFirst(st, id) == [st EXCEPT !.closers = <<id>> \o @]

\* i.closers = append(i.closers, c)
Register(st, id) == [st EXCEPT !.closers = Append(@, id)]

\* The environment hands out a new resource of kind k; its id is its index.
Acquire(st, k) == [st EXCEPT !.resKind = Append(@, k)]

NewId(st) == Len(st.resKind) + 1

\* obj := new(BPFObj), registered when it is an io.Closer.
newObj(st) ==
    LET id == NewId(st)
        s1 == [Acquire(st, "bundle") EXCEPT !.calls.build = @ + 1]
    IN IF objCloseable THEN Register(s1, id) ELSE s1

\* Variant of appendLinks: the links are taken and not registered.
RECURSIVE appendLinksDropped(_, _)
appendLinksDropped(st, n) ==
    IF n = 0 THEN st
    ELSE appendLinksDropped(Acquire(st, "link"), n - 1)

\* for _, l := range links { i.closers = append(i.closers, l) }
RECURSIVE appendLinks(_, _)
appendLinks(st, n) ==
    IF n = 0 THEN st
    ELSE appendLinks(Register(Acquire(st, "link"), NewId(st)), n - 1)

\* Variant of attachAll: the error of an uprobe function is not looked at.
RECURSIVE attachAllUnchecked(_, _, _)
attachAllUnchecked(st, order, att) ==
    IF order = <<>> THEN [st |-> st, err |-> "ok"]
    ELSE LET s1 == [st EXCEPT !.calls.attach = @ + 1,
                              !.calls.symb[Head(order)] = @ + 1] IN
         attachAllUnchecked(
             IF att[Head(order)] < 0 THEN s1 ELSE appendLinks(s1, att[Head(order)]),
             Tail(order), att)

\* The range over i.Uprobes in buildObj, in the order the map yields it.
RECURSIVE attachAll(_, _, _)
attachAll(st, order, att) ==
    IF order = <<>> THEN [st |-> st, err |-> "ok"]
    ELSE LET s1 == [st EXCEPT !.calls.attach = @ + 1,
                              !.calls.symb[Head(order)] = @ + 1] IN
         IF att[Head(order)] < 0
         THEN [st |-> s1, err |-> "attachErr"]
         ELSE attachAll(appendLinks(s1, att[Head(order)]), Tail(order), att)

\* Variant of buildObj: the bundle is registered once it has been loaded.
buildObjRegisterLate(st, in) ==
    LET id == NewId(st)
        s1 == [Acquire(st, "bundle") EXCEPT !.calls.build = @ + 1]
    IN IF ~in.loadOK THEN [st |-> s1, err |-> "loadErr"]
       ELSE attachAll(IF objCloseable THEN Register(s1, id) ELSE s1,
                      in.order, in.att)

\* Base.buildObj
buildObj(st, in) ==
    LET s1 == newObj(st) IN
    IF ~in.loadOK THEN [st |-> s1, err |-> "loadErr"]
    ELSE attachAll(s1, in.order, in.att)

\* Variant of openReader: the reader is stored and not appended to the list.
openReaderUnregistered(st, rdOK) ==
    LET s1 == [st EXCEPT !.calls.readerFn = @ + 1] IN
    IF ~rdOK THEN [st |-> [s1 EXCEPT !.reader = Nil], err |-> "readerErr"]
    ELSE [st |-> [Acquire(s1, "reader") EXCEPT !.reader = NewId(s1)], err |-> "ok"]

\* i.reader, err = i.ReaderFn(*obj); i.closers = append(i.closers, i.reader)
openReader(st, rdOK) ==
    LET s1 == [st EXCEPT !.calls.readerFn = @ + 1] IN
    IF ~rdOK THEN [st |-> [s1 EXCEPT !.reader = Nil], err |-> "readerErr"]
    ELSE LET id == NewId(s1) IN
         [st |-> Register([Acquire(s1, "reader") EXCEPT !.reader = id], id),
          err |-> "ok"]

\* Base.Load as a function of the probe's fields and the environment.
LoadResult(st, in) ==
    LET s0 == [st EXCEPT !.calls.spec = @ + 1] IN
    IF ~in.specOK THEN [st |-> s0, err |-> "specErr"]
    ELSE LET ic == injectConsts(in.td, in.injOK)
             s1 == [s0 EXCEPT !.calls.inject = @ + ic.injected]
         IN IF ic.err # "ok" THEN [st |-> s1, err |-> ic.err]
            ELSE LET b == buildObj(s1, in) IN
                 IF b.err # "ok" THEN b
                 ELSE openReader(b.st, in.rdOK)

NoCalls ==
    [spec |-> 0, inject |-> 0, build |-> 0, attach |-> 0, readerFn |-> 0,
     symb |-> [s \in Symbols |-> 0]]

ProbeState ==
    [closers |-> closers, reader |-> reader, resKind |-> resKind, calls |-> NoCalls]

\* A call of Load.  Load runs neither during Close nor during Run.
Load ==
    /\ loads < MaxLoads
    /\ closePc # "loop"
    /\ runPc \in {"idle", "done"}
    /\ \E in \in LoadInputs :
         LET r == LoadResult(ProbeState, in) IN
         /\ Len(r.st.resKind) <= MaxRes
         /\ closers' = r.st.closers
         /\ reader' = r.st.reader
         /\ resKind' = r.st.resKind
         /\ calls' = r.st.calls
         /\ relCount' = [id \in 1..Len(r.st.resKind) |->
                            IF id <= Len(resKind) THEN relCount[id] ELSE 0]
         /\ lastLoad' = [err |-> r.err, base |-> Len(resKind), stage |-> LastStage(in)]
    /\ loads' = loads + 1
    /\ UNCHANGED <<objCloseable, rdClosed, closePc, closeIdx, closeErr,
                   closeSeen, closeRet, closes, runVars, dest, fnVars>>

----------------------------------------------------------------------------
(* Close *)

\* Close is called; the range over i.closers starts at its first element.
CloseStart ==
    /\ closes < MaxCloses
    /\ closePc \in {"idle", "done"}
    /\ closePc' = "loop"
    /\ closeIdx' = 1
    /\ closeErr' = FALSE
    /\ closeSeen' = <<>>
    /\ closeRet' = "none"
    /\ closes' = closes + 1
    /\ UNCHANGED <<loadVars, relCount, rdClosed, runVars, dest, fnVars>>

\* Variant of NextCloseIdx: the loop of Close stops at the first failure.
NextCloseIdxUntilError(idx, ok) == IF ok THEN idx + 1 ELSE Len(closers) + 1

\* The loop of Close moves on to the next closer whatever c.Close() returned.
NextCloseIdx(idx, ok) == idx + 1

\* One iteration: err = errors.Join(err, c.Close()).  A release that reports
\* success has taken effect; for one that reports a failure either is possible.
CloseStep ==
    /\ closePc = "loop"
    /\ closeIdx <= Len(closers)
    /\ \E ok \in BOOLEAN, effect \in BOOLEAN :
         LET id == closers[closeIdx] IN
         /\ ok => effect
         /\ resKind[id] # "reader" => effect = ok
         /\ relCount' = [relCount EXCEPT ![id] = @ + 1]
         /\ rdClosed' = IF resKind[id] = "reader" /\ effect
                        THEN rdClosed \cup {id} ELSE rdClosed
         /\ closeErr' = (closeErr \/ ~ok)
         /\ closeSeen' = Append(closeSeen, id)
         /\ closeIdx' = NextCloseIdx(closeIdx, ok)
    /\ UNCHANGED <<loadVars, closePc, closeRet, closes, runVars, dest, fnVars>>

\* What Close hands to its caller once the loop is over: it has no result,
\* a non-nil err is only logged.
CloseResult(err) == "returned"

\* Variant of AfterClose: Close empties the list it has released.
AfterCloseDrained(cl) == <<>>

\* i.closers once Close has ranged over it: Close assigns nothing to it.
AfterClose(cl) == cl

CloseEnd ==
    /\ closePc = "loop"
    /\ closeIdx > Len(closers)
    /\ closePc' = "done"
    /\ closeRet' = CloseResult(closeErr)
    /\ closers' = AfterClose(closers)
    /\ closeErr' = FALSE
    /\ UNCHANGED <<objCloseable, reader, resKind, lastLoad, calls, loads,
                   relCount, rdClosed, closeIdx, closeSeen,
                   closes, runVars, dest, fnVars>>

----------------------------------------------------------------------------
(* Run *)

\* perf.Record as far as Run reads it.
Records == [RawSample : RawSamples, LostSamples : 0..MaxLost]

\* Event of event.go, as far as the model distinguishes events.
NilEvent == [Name |-> "nil", StartTime |-> 0]

\* Whether binary.Read fills a BPFEvent from the bytes: it needs EventSize of
\* them and ignores the rest.
Decodable(raw) == Len(raw) >= EventSize

RECURSIVE LittleEndian(_, _)
LittleEndian(raw, n) ==
    IF n = 0 THEN 0 ELSE raw[1] + 256 * LittleEndian(Tail(raw), n - 1)

\* Base.ProcessFn, supplied by the instrumentation.
ProcessFn(event) == [Name |-> "span", StartTime |-> event]

\* Base.processRecord
processRecord(record) ==
    IF ~Decodable(record.RawSample)
    THEN [ev |-> NilEvent, err |-> "decode"]
    ELSE [ev |-> ProcessFn(LittleEndian(record.RawSample, EventSize)), err |-> ""]

\* Run is started on a probe whose Load has set the reader.
RunStart ==
    /\ runPc = "idle"
    /\ reader # Nil
    /\ runPc' = "read"
    /\ UNCHANGED <<loadVars, closeVars, cur, readLog, decoded, sent, lastRead, dest,
                   fnVars>>

\* Variant of ReturnsOn: Run gives up on any read error.
ReturnsOnAnyError(err) == TRUE

\* errors.Is(err, perf.ErrClosed): whether Run returns on this read error.
ReturnsOn(err) == err = "closed"

\* Variant of AfterReadError: Run retries whatever the read error was.
AfterReadErrorRetry(err) == "read"

\* Variant of AfterReadError: after a read error Run falls through to the
\* send.
AfterReadErrorFallThrough(err) == "send"

\* Where Run goes after a failed read.
AfterReadError(err) == IF ReturnsOn(err) THEN "done" ELSE "read"

\* i.reader.Read() on a closed reader reports perf.ErrClosed.
RunReadClosed ==
    /\ runPc = "read"
    /\ reader \in rdClosed
    /\ lastRead' = "closed"
    /\ runPc' = AfterReadError("closed")
    /\ UNCHANGED <<loadVars, closeVars, cur, readLog, decoded, sent, dest, fnVars>>

\* i.reader.Read() fails for another reason.
RunReadErr ==
    /\ runPc = "read"
    /\ reader \notin rdClosed
    /\ Len(readLog) < MaxReads
    /\ lastRead' = "err"
    /\ readLog' = Append(readLog, "err")
    /\ runPc' = AfterReadError("other")
    /\ UNCHANGED <<loadVars, closeVars, cur, decoded, sent, dest, fnVars>>

\* Variant of SkipsRecord: the dropped-sample count is not looked at.
SkipsNoRecord(record) == FALSE

\* record.LostSamples != 0: log and continue.
SkipsRecord(record) == record.LostSamples # 0

\* Variant of AfterProcess: Run goes back to reading with e not yet sent.
AfterProcessRead(err) == "read"

\* After processRecord Run goes on to dest <- e, whether or not err is nil.
AfterProcess(err) == "send"

\* i.reader.Read() yields a record.
RunReadRecord ==
    /\ runPc = "read"
    /\ reader \notin rdClosed
    /\ Len(readLog) < MaxReads
    /\ \E record \in Records :
         LET idx == Len(readLog) + 1 IN
         IF SkipsRecord(record)
         THEN /\ readLog' = Append(readLog, "lost")
              /\ lastRead' = "lost"
              /\ runPc' = "read"
              /\ UNCHANGED <<cur, decoded>>
         ELSE LET r == processRecord(record) IN
              /\ readLog' = Append(readLog,
                     IF record.LostSamples # 0 THEN "lost"
                     ELSE IF Decodable(record.RawSample) THEN "ok" ELSE "bad")
              /\ lastRead' = "record"
              /\ decoded' = decoded \cup {idx}
              /\ cur' = [rec |-> idx, ev |-> r.ev]
              /\ runPc' = AfterProcess(r.err)
    /\ UNCHANGED <<loadVars, closeVars, sent, dest, fnVars>>

\* Variant of Forward: the newest send overtakes the earlier ones.
ForwardFirst(seq, e) == <<e>> \o seq

\* The order in which sends reach the channel.
Forward(seq, e) == Append(seq, e)

\* dest <- e, possible once the channel has room.
RunSend ==
    /\ runPc = "send"
    /\ Len(dest) < ChanCap
    /\ dest' = Forward(dest, cur.ev)
    /\ sent' = Forward(sent, cur)
    /\ runPc' = "read"
    /\ UNCHANGED <<loadVars, closeVars, cur, readLog, decoded, lastRead, fnVars>>

\* The owner of the output channel receives an event.
Consume ==
    /\ dest # <<>>
    /\ dest' = Tail(dest)
    /\ UNCHANGED <<loadVars, closeVars, runVars, fnVars>>

----------------------------------------------------------------------------
(* Calls of the functions that leave the probe as it is *)

NoCall == [fn |-> "none"]

\* Lists of at most MaxConsts constants.
ConstSets == UNION { [1..n -> ConstValues] : n \in 0..MaxConsts }

\* A call of FuncNames; order is the order in which the range yields the keys.
FuncNamesCall ==
    /\ "uprobes" \in DOMAIN fnArg
    /\ \E order \in RangeOrders(fnArg.uprobes) :
         fnRet' = [fn |-> "FuncNames", order |-> order, names |-> FuncNames(order)]
    /\ UNCHANGED <<loadVars, closeVars, runVars, dest, fnArg>>

\* A call of injectOpts on a list of constants.
injectOptsCall ==
    /\ "consts" \in DOMAIN fnArg
    /\ LET r == injectOpts(fnArg.consts, fnArg.td) IN
         fnRet' = [fn |-> "injectOpts", out |-> r.out, err |-> r.err,
                   resolved |-> r.resolved]
    /\ UNCHANGED <<loadVars, closeVars, runVars, dest, fnArg>>

\* A call of InjectOption on one constant of the list.
InjectOptionCall ==
    /\ "consts" \in DOMAIN fnArg
    /\ \E i \in 1..Len(fnArg.consts) :
         LET r == InjectOption(fnArg.consts[i], fnArg.td) IN
         fnRet' = [fn |-> "InjectOption", c |-> fnArg.consts[i], opt |-> r.opt,
                   err |-> r.err]
    /\ UNCHANGED <<loadVars, closeVars, runVars, dest, fnArg>>

----------------------------------------------------------------------------
(* Specification *)

\* The probe after construction, before any call.
InitProbe ==
    /\ objCloseable \in BOOLEAN
    /\ closers = <<>>
    /\ reader = Nil
    /\ resKind = <<>>
    /\ relCount = <<>>
    /\ rdClosed = {}
    /\ lastLoad = [err |-> "none", base |-> 0, stage |-> "none"]
    /\ calls = NoCalls
    /\ loads = 0
    /\ closePc = "idle"
    /\ closeIdx = 1
    /\ closeErr = FALSE
    /\ closeSeen = <<>>
    /\ closeRet = "none"
    /\ closes = 0
    /\ runPc = "idle"
    /\ cur = [rec |-> 0, ev |-> NilEvent]
    /\ readLog = <<>>
    /\ decoded = {}
    /\ dest = <<>>
    /\ sent = <<>>
    /\ lastRead = "none"
    /\ fnRet = NoCall

\* The probe of the lifecycle, whose uprobes are Symbols and whose constants
\* are Consts; only Load, Run and Close are called on it.
Init ==
    /\ InitProbe
    /\ fnArg = NoCall

\* The event loop of one probe: the agent calls Load once, then Run in its
\* own goroutine, and Close from another.
LoadOnce == loads = 0 /\ Load

Next ==
    \/ LoadOnce
    \/ CloseStart
    \/ CloseStep
    \/ CloseEnd
    \/ RunStart
    \/ RunReadClosed
    \/ RunReadErr
    \/ RunReadRecord
    \/ RunSend
    \/ Consume

Spec == Init /\ [][Next]_vars

\* The resource lifecycle: any sequence of Load and Close calls.
NextLife ==
    \/ Load
    \/ CloseStart
    \/ CloseStep
    \/ CloseEnd

SpecLife == Init /\ [][NextLife]_vars

\* Load, Run and Close on one probe: Load any number of times, outside Run and
\* Close.
NextAll ==
    \/ Load
    \/ CloseStart
    \/ CloseStep
    \/ CloseEnd
    \/ RunStart
    \/ RunReadClosed
    \/ RunReadErr
    \/ RunReadRecord
    \/ RunSend
    \/ Consume

SpecAll == Init /\ [][NextAll]_vars

\* Probes with any set of uprobes, and any list of constants with any target
\* details.
InitCalls ==
    /\ InitProbe
    /\ \/ \E keys \in SUBSET SymbolNames :
             fnArg = [uprobes |-> keys]
       \/ \E cs \in ConstSets, td \in TargetDetails :
             fnArg = [consts |-> cs, td |-> td]

NextCalls ==
    \/ FuncNamesCall
    \/ injectOptsCall
    \/ InjectOptionCall

SpecCalls == InitCalls /\ [][NextCalls]_vars

\* Run and Close get to take the steps they can take.
SpecFair ==
    /\ Spec
    /\ WF_vars(RunReadClosed \/ RunSend)
    /\ WF_vars(CloseStep \/ CloseEnd)

----------------------------------------------------------------------------
(* Properties of Run *)

Range(seq) == { seq[k] : k \in 1..Len(seq) }

SentRecs == { sent[k].rec : k \in 1..Len(sent) }

\* Run holds a record it has read and not yet forwarded.
Pending(i) == runPc = "send" /\ cur.rec = i

RunActive == runPc \in {"read", "send"}

\* C1: a record with no dropped samples whose payload does not decode causes
\* no send on the output channel, and does not make Run return.
C1_UndecodableNotSent ==
    /\ \A i \in 1..Len(readLog) :
          readLog[i] = "bad" => i \notin SentRecs
    /\ (lastRead = "record" /\ readLog[Len(readLog)] = "bad") => runPc # "done"

\* C2: Run returns only when a read reports the closed reader, never after
\* another read error, a lossy record, a decode failure or a forwarded event;
\* and once it has returned it sends nothing more.
C2_ReturnsOnlyOnClosed ==
    [][ /\ (runPc # "done" /\ runPc' = "done") =>
              /\ runPc = "read"
              /\ reader \in rdClosed
              /\ lastRead' = "closed"
        /\ lastRead' \in {"err", "lost", "record"} => runPc' # "done"
        /\ (runPc = "send" /\ runPc' # "send") => runPc' = "read"
        /\ runPc = "done" => runPc' = "done" /\ sent' = sent /\ Len(dest') <= Len(dest)
      ]_vars

\* Run has returned after a read error and after forwarding an event.
C2_Witness ==
    /\ runPc = "done"
    /\ "err" \in Range(readLog)
    /\ sent # <<>>

C4_SendsInReadOrder ==
    /\ \A j, k \in 1..Len(sent) : j < k => sent[j].rec < sent[k].rec
    /\ \A i \in decoded : i \in SentRecs \/ (Pending(i) /\ i = Len(readLog))
    /\ SentRecs \subseteq decoded
    /\ Len(dest) <= Len(sent)
    /\ \A k \in 1..Len(dest) : dest[k] = sent[Len(sent) - Len(dest) + k].ev

\* Two decodable records with different contents have been forwarded.
C4_Witness ==
    /\ Len(sent) = 2
    /\ readLog = <<"ok", "ok">>
    /\ sent[1].ev # sent[2].ev

\* C5: a record with a nonzero dropped-sample count is not decoded and
\* nothing is sent for it; Run goes on to the next read.
C5_LostNotDecoded ==
    /\ \A i \in 1..Len(readLog) :
          readLog[i] = "lost" => i \notin decoded /\ i \notin SentRecs /\ ~Pending(i)
    /\ lastRead = "lost" => runPc = "read"

\* A lossy record was skipped and the record after it was forwarded.
C5_Witness ==
    /\ readLog = <<"lost", "ok">>
    /\ SentRecs = {2}

\* C17: Run reads the next record only once the event of the previous one is
\* on the channel: it holds at most one record that it has read and not
\* forwarded, it reads only when it holds none, and while the channel is full
\* it stays at the send, where it neither reads nor sends, until the consumer
\* has made room.
C17_OneRecordInHand ==
    [][ /\ Cardinality(decoded' \ SentRecs') <= 1
        /\ readLog' # readLog =>
              /\ runPc = "read"
              /\ decoded \subseteq SentRecs
        /\ (runPc = "send" /\ Len(dest) >= ChanCap) =>
              /\ runPc' = "send"
              /\ readLog' = readLog
              /\ sent' = sent
              /\ cur' = cur
        /\ (runPc = "send" /\ runPc' # "send") =>
              /\ Len(dest) < ChanCap
              /\ sent' = Append(sent, cur)
              /\ readLog' = readLog
      ]_vars

\* Run is blocked at the send of its second record: the channel is full of
\* the event of the first, and the reader is open.
C17_Witness ==
    /\ runPc = "send"
    /\ Len(dest) = ChanCap
    /\ cur.rec = Len(readLog)
    /\ cur.rec \notin SentRecs
    /\ Len(sent) = ChanCap
    /\ reader \notin rdClosed

\* C19: once the reader is closed no read of Run yields a record or an error
\* other than closed, and Run sends at most once more: only the event it was
\* holding at the send when the reader was closed, after which it goes to the
\* read that makes it return.
C19_AtMostOneSendAfterClose ==
    [][ (reader \in rdClosed) =>
          /\ reader' \in rdClosed'
          /\ readLog' = readLog
          /\ decoded' = decoded
          /\ runPc # "send" => (sent' = sent /\ runPc' # "send")
          /\ sent' # sent =>
                /\ runPc = "send"
                /\ sent' = Append(sent, cur)
                /\ runPc' = "read"
          /\ (runPc = "read" /\ runPc' # "read") =>
                (runPc' = "done" /\ lastRead' = "closed")
      ]_vars

\* Close has closed the reader while Run holds the event of its second record
\* at the send, with room on the channel for it.
C19_Witness ==
    /\ reader \in rdClosed
    /\ runPc = "send"
    /\ cur.rec \notin SentRecs
    /\ sent # <<>>
    /\ Len(dest) < ChanCap

----------------------------------------------------------------------------
(* Properties of Load and Close *)

\* A resource that has a Close method: all but a bundle that is no io.Closer.
Closeable(kinds, id) == kinds[id] = "bundle" => objCloseable

\* The closeable resources handed out after the first base ones, in order.
NewCloseable(base, kinds) ==
    LET ids == [k \in 1..(Len(kinds) - base) |-> base + k]
        T(id) == Closeable(kinds, id)
    IN SelectSeq(ids, T)

LoadReturns == loads' = loads + 1

CloseReturns == closePc = "loop" /\ closePc' = "done"

EarlyFailure(l) == l.stage \in {"spec", "consts", "inject"}

LateFailure(l) == l.stage \in {"load", "attach", "reader"}

\* C6: when Close returns it has invoked release once on every entry of the
\* list, in order, however many of the releases failed, and it hands no
\* failure to its caller.
C6_CloseReleasesAll ==
    [][ CloseReturns =>
            /\ closeSeen = closers
            /\ closeRet' = "returned"
      ]_vars

\* One Close has released two readers: the release of the first failed and
\* left it open, and the second, later in the list, was closed all the same.
C6_Witness ==
    /\ closePc = "done"
    /\ closeSeen = closers
    /\ \E i, j \in 1..Len(closers) :
          /\ i < j
          /\ resKind[closers[i]] = "reader"
          /\ resKind[closers[j]] = "reader"
          /\ relCount[closers[i]] = 1
          /\ closers[i] \notin rdClosed
          /\ closers[j] \in rdClosed

\* C7 as stated: no resource has release invoked on it more than once.
C7_ReleasedAtMostOnce ==
    \A id \in 1..Len(resKind) : relCount[id] <= 1

\* C7, amended: Close leaves the list as it is, so every Close call invokes
\* release once on every entry, also on entries an earlier Close has released;
\* a resource is released at most as often as Close was called.
C7_EveryCloseReleasesAll ==
    [][ /\ loads' = loads => closers' = closers
        /\ \A id \in 1..Len(resKind) :
              /\ relCount'[id] <= closes'
              /\ relCount'[id] # relCount[id] =>
                    /\ closePc = "loop"
                    /\ closers[closeIdx] = id
                    /\ relCount'[id] = relCount[id] + 1
        /\ CloseReturns =>
              /\ closeSeen = closers
              /\ \A k \in 1..Len(closers') : relCount'[closers'[k]] >= 1
      ]_vars

\* A second Close has released a resource that the first had released.
C7_Witness ==
    /\ closePc = "done"
    /\ closes = 2
    /\ \E id \in 1..Len(resKind) : relCount[id] = 2

\* C8: a Load that fails in the bundle load, in an uprobe function or in the
\* reader factory releases nothing and leaves every resource it registered
\* in the list, after the entries that were there; the next Close releases
\* the whole list, those resources included.
C8_FailedLoadKeepsResources ==
    [][ /\ (LoadReturns /\ LateFailure(lastLoad')) =>
              /\ lastLoad'.err \in {"loadErr", "attachErr", "readerErr"}
              /\ closers' = closers \o NewCloseable(Len(resKind), resKind')
              /\ \A id \in 1..Len(resKind') :
                    relCount'[id] = IF id <= Len(resKind) THEN relCount[id] ELSE 0
              /\ rdClosed' = rdClosed
        /\ (CloseReturns /\ LateFailure(lastLoad)) =>
              /\ Range(closeSeen) = Range(closers)
              /\ { id \in Range(closeSeen) : id > lastLoad.base }
                    = Range(NewCloseable(lastLoad.base, resKind))
              /\ \A id \in Range(NewCloseable(lastLoad.base, resKind)) :
                    relCount[id] >= 1
      ]_vars

\* An uprobe function failed after the bundle and a link were registered, and
\* a Close has then released both.
C8_Witness ==
    /\ lastLoad.stage = "attach"
    /\ closePc = "done"
    /\ objCloseable
    /\ Len(NewCloseable(lastLoad.base, resKind)) >= 2
    /\ \A id \in Range(NewCloseable(lastLoad.base, resKind)) : relCount[id] = 1

\* C9: a Load that fails in the specification factory, in the resolution of
\* a constant or in the injection returns the failure, builds no bundle,
\* calls no uprobe function and no reader factory, and leaves the list and
\* the reader as they were.
C9_EarlyFailureAcquiresNothing ==
    [][ (LoadReturns /\ EarlyFailure(lastLoad')) =>
            /\ lastLoad'.err \in {"specErr", "constErr", "injectErr"}
            /\ calls'.build = 0
            /\ calls'.attach = 0
            /\ calls'.readerFn = 0
            /\ lastLoad'.stage = "consts" => calls'.inject = 0
            /\ resKind' = resKind
            /\ closers' = closers
            /\ reader' = reader
      ]_vars

\* A constant failed to resolve in a Load that followed a successful Load.
C9_Witness ==
    /\ loads = 2
    /\ lastLoad.stage = "consts"
    /\ reader # Nil
    /\ Len(closers) >= 2

\* C10: every closeable resource a Load acquired is in the list, released or
\* not; after a successful Load the reader is set to the reader that Load
\* acquired last, and the list ends with what that Load acquired.
C10_AcquiredAreTracked ==
    /\ \A id \in 1..Len(resKind) :
          Closeable(resKind, id) => id \in Range(closers)
    /\ lastLoad.stage = "done" =>
          /\ lastLoad.err = "ok"
          /\ reader = Len(resKind)
          /\ resKind[reader] = "reader"
          /\ \A id \in Range(NewCloseable(lastLoad.base, resKind)) :
                id \in Range(closers)

\* A second Load has succeeded with a closeable bundle and a link, after a
\* Close released the resources of the first.
C10_Witness ==
    /\ loads = 2
    /\ lastLoad.stage = "done"
    /\ objCloseable
    /\ \E id \in 1..Len(resKind) : id > lastLoad.base /\ resKind[id] = "link"
    /\ \E id \in 1..Len(resKind) : relCount[id] > 0
    /\ \E id \in 1..Len(resKind) : relCount[id] = 0

\* C11: Load returns nil exactly when no collaborator fails: the specification
\* factory, every constant, the injection, the bundle load, every uprobe
\* function and the reader factory; it has then called every collaborator and
\* the uprobe function of every symbol once.  When an uprobe function fails,
\* no uprobe function is called after it and the reader factory is not called:
\* no reader is created and the reader field stays as it was.
C11_LoadSucceedsIffAllSucceed ==
    [][ LoadReturns =>
          /\ (lastLoad'.err = "ok") <=> (lastLoad'.stage = "done")
          /\ lastLoad'.err = "ok" =>
                /\ calls'.spec = 1 /\ calls'.inject = 1 /\ calls'.build = 1
                /\ calls'.readerFn = 1
                /\ \A s \in Symbols : calls'.symb[s] = 1
                /\ resKind'[reader'] = "reader" /\ reader' > Len(resKind)
          /\ lastLoad'.stage = "attach" =>
                /\ lastLoad'.err = "attachErr"
                /\ calls'.attach \in 1..Cardinality(Symbols)
                /\ \A s \in Symbols : calls'.symb[s] <= 1
                /\ Cardinality({ s \in Symbols : calls'.symb[s] = 1 }) = calls'.attach
                /\ calls'.readerFn = 0
                /\ reader' = reader
                /\ \A id \in (Len(resKind) + 1)..Len(resKind') :
                      resKind'[id] # "reader"
      ]_vars

\* A second Load has succeeded: every uprobe function ran once and returned
\* a link, after a first Load that failed once it had acquired a resource.
C11_Witness ==
    /\ loads = 2
    /\ lastLoad.err = "ok"
    /\ reader = Len(resKind)
    /\ \A s \in Symbols : calls.symb[s] = 1
    /\ Cardinality({ id \in 1..Len(resKind) :
                        id > lastLoad.base /\ resKind[id] = "link" }) = Cardinality(Symbols)
    /\ lastLoad.base > 0
    /\ \A id \in 1..lastLoad.base : resKind[id] # "reader"

\* C15: only Load assigns to the list of closers and to the reader: no step
\* of Run, of Close or of the consumer changes either, and a Load leaves the
\* entries the list had, those of earlier Loads included, where they were
\* and appends to them.
C15_OnlyLoadWrites ==
    [][ /\ (closers' # closers \/ reader' # reader) => LoadReturns
        /\ (runVars' # runVars \/ dest' # dest \/ rdClosed' # rdClosed
              \/ <<closePc, closeIdx, closeSeen, closes>>'
                     # <<closePc, closeIdx, closeSeen, closes>>) =>
              (closers' = closers /\ reader' = reader)
        /\ LoadReturns =>
              /\ Len(closers') >= Len(closers)
              /\ SubSeq(closers', 1, Len(closers)) = closers
      ]_vars

\* A second Load has appended its resources to those of the first, which a
\* Close had released while Run was forwarding events.
C15_Witness ==
    /\ loads = 2
    /\ lastLoad.err = "ok"
    /\ runPc = "done"
    /\ sent # <<>>
    /\ closePc = "done"
    /\ \E i, j \in 1..Len(closers) :
          /\ i < j
          /\ closers[i] <= lastLoad.base /\ relCount[closers[i]] > 0
          /\ closers[j] > lastLoad.base /\ relCount[closers[j]] = 0

\* C16: Close releases the entries of the list from the first to the last,
\* and the list is in the order in which the resources were acquired.  After
\* one Load the bundle, if it is an io.Closer, comes first, registered even
\* when its load fails before any uprobe function has run; after one
\* successful Load the links follow it and the reader is the last entry, so
\* that a Close has released every other entry when it releases the reader.
C16_ReleasedInRegistrationOrder ==
    /\ Len(closeSeen) <= Len(closers)
    /\ closeSeen = SubSeq(closers, 1, Len(closeSeen))
    /\ \A i, j \in 1..Len(closers) : i < j => closers[i] < closers[j]
    /\ (loads = 1 /\ objCloseable /\ calls.build = 1) =>
          (resKind[closers[1]] = "bundle" /\ closers[1] = 1)
    /\ (loads = 1 /\ lastLoad.stage = "load") => calls.attach = 0
    /\ (loads = 1 /\ lastLoad.err = "ok") =>
          /\ closers[Len(closers)] = reader
          /\ resKind[reader] = "reader"
          /\ \A i \in 1..(Len(closers) - 1) :
                resKind[closers[i]] =
                    IF i = 1 /\ objCloseable THEN "bundle" ELSE "link"
          /\ reader \in Range(closeSeen) => closeSeen = closers
          /\ (closePc = "loop" /\ closeIdx <= Len(closers)) =>
                reader \notin Range(closeSeen)

\* After one successful Load a Close has released the bundle and every link
\* and is about to release the reader.
C16_Witness ==
    /\ loads = 1
    /\ lastLoad.err = "ok"
    /\ objCloseable
    /\ closePc = "loop"
    /\ closeIdx = Len(closers)
    /\ closers[closeIdx] = reader
    /\ Len(closers) > Cardinality(Symbols) + 1
    /\ relCount[reader] = 0
    /\ \A i \in 1..(Len(closers) - 1) : relCount[closers[i]] = 1

\* C18: after any Loads and Closes the reader is nil or an entry of the list
\* of closers that is a perf reader, which every later Close releases.  A
\* Load that fails before the reader factory leaves the reader as it was; one
\* that fails in the reader factory stores the nil the factory returned.
C18_ReaderNilOrRegistered ==
    [][ /\ reader' = Nil \/
              (reader' \in Range(closers') /\ resKind'[reader'] = "reader")
        /\ (LoadReturns /\ lastLoad'.err # "ok") =>
              reader' = IF lastLoad'.stage = "reader" THEN Nil ELSE reader
        /\ (CloseReturns /\ reader # Nil) => reader \in Range(closeSeen)
      ]_vars

\* A Load that failed in the reader factory has reset the reader of an
\* earlier successful Load, which is still in the list and has been closed.
C18_Witness ==
    /\ loads = 2
    /\ lastLoad.stage = "reader"
    /\ reader = Nil
    /\ \E id \in Range(closers) : resKind[id] = "reader" /\ id \in rdClosed

----------------------------------------------------------------------------
(* Properties of injectOpts, InjectOption and FuncNames *)

\* The indices of the constants of cs whose resolution against td fails
\* (failed = TRUE) or succeeds (failed = FALSE), in ascending order.
IndicesOf(cs, td, failed) ==
    LET T(i) == (InjectOption(cs[i], td).err # "") = failed
    IN SelectSeq([i \in 1..Len(cs) |-> i], T)

\* C12: injectOpts on N constants of which K fail invokes InjectOption on all
\* N, in order; it returns the options of the N-K that resolve, in the order
\* of the list, and an error that joins the K failures in the order of the
\* list, nil exactly when K = 0.
C12_AllResolvedAndJoined ==
    fnRet.fn = "injectOpts" =>
        LET failing == IndicesOf(fnArg.consts, fnArg.td, TRUE)
            resolving == IndicesOf(fnArg.consts, fnArg.td, FALSE)
        IN /\ fnRet.resolved = fnArg.consts
           /\ Len(fnRet.out) = Len(fnArg.consts) - Len(failing)
           /\ fnRet.out = [k \in 1..Len(resolving) |->
                             InjectOption(fnArg.consts[resolving[k]], fnArg.td).opt]
           /\ (fnRet.err = <<>>) <=> (Len(failing) = 0)
           /\ fnRet.err = [k \in 1..Len(failing) |->
                             InjectOption(fnArg.consts[failing[k]], fnArg.td).err]

\* injectOpts was called on a list of MaxConsts constants of which the first
\* and the last failed, with different errors, and the others resolved.
C12_Witness ==
    /\ fnRet.fn = "injectOpts"
    /\ Len(fnArg.consts) = MaxConsts
    /\ IndicesOf(fnArg.consts, fnArg.td, TRUE) = <<1, MaxConsts>>
    /\ Len(fnRet.out) = MaxConsts - 2
    /\ Len(fnRet.err) = 2
    /\ fnRet.err[1] # fnRet.err[2]

\* C13: InjectOption of a struct field fails exactly when its module path is
\* no key of td.Libraries, and otherwise yields the offset option for the
\* version found there; InjectOption of the allocation constant fails exactly
\* when td.AllocationDetails is nil; InjectOption of the registers-ABI flag
\* and of a key/value pair never fails.
C13_FailsIffMetadataAbsent ==
    fnRet.fn = "InjectOption" =>
        LET c == fnRet.c IN
        /\ c.type = "StructField" =>
              /\ (fnRet.err # "") <=> (c.ModPath \notin DOMAIN fnArg.td.Libraries)
              /\ fnRet.err = "" =>
                    fnRet.opt = <<"WithOffset", c.Key, c.ModPath,
                                  fnArg.td.Libraries[c.ModPath]>>
        /\ c.type = "Allocation" =>
              (fnRet.err # "") <=> ~fnArg.td.AllocationDetails
        /\ c.type \in {"RegistersABI", "KeyVal"} => fnRet.err = ""
        /\ fnRet.err # "" => fnRet.opt = <<>>

\* The allocation constant failed to resolve against fnArg.td details that
\* carry the version of a module and no allocation details.
C13_Witness ==
    /\ fnRet.fn = "InjectOption"
    /\ fnRet.c.type = "Allocation"
    /\ fnRet.err = "no allocation details"
    /\ DOMAIN fnArg.td.Libraries # {}
    /\ \E i \in 1..Len(fnArg.consts) :
          fnArg.consts[i].type = "StructField" /\ InjectOption(fnArg.consts[i], fnArg.td).err # ""

\* SymbolNames in ascending byte order.
Ascending == <<"a", "ab", "b", "ba", "c">>

\* C14: FuncNames returns every key of Uprobes once, in ascending order of
\* their bytes, and leaves Uprobes as it is.  What it returns is the list
\* Ascending restricted to the keys, whatever the order in which the range
\* over the map yielded them.
C14_FuncNamesSortedKeys ==
    [][ fnRet'.fn = "FuncNames" =>
          LET names == fnRet'.names
              IsKey(s) == s \in fnArg.uprobes
          IN /\ Range(names) = fnArg.uprobes
             /\ Len(names) = Cardinality(fnArg.uprobes)
             /\ \A i, j \in 1..Len(names) : i < j => StringLess(names[i], names[j])
             /\ names = SelectSeq(Ascending, IsKey)
             /\ fnArg' = fnArg
      ]_vars

\* FuncNames was called on a probe whose range over Uprobes yielded "b", "a",
\* "c" and then the names that start like another.
C14_Witness ==
    /\ fnRet.fn = "FuncNames"
    /\ fnRet.order = <<"b", "a", "c", "ba", "ab">>
    /\ fnRet.names = Ascending

====
